---- MODULE Spec2Model ----
(***************************************************************************)
(* A model of TinyIMG's image kernel (c_src/src/image_processor.c):        *)
(*   - applyTransformation : inverse-mapped bilinear resampling            *)
(*   - multiplyMatrices    : 3x3 transform composition                     *)
(*   - compressSVD         : argument handling, rank selection, per-channel*)
(*                           allocation and fallback control flow          *)
(*   - jacobiSVD           : the Jacobi iterations, the singular-value sort*)
(*                                                                         *)
(* Arithmetic.  The C code computes in float.  Every input drawn below has *)
(* integer matrix entries whose 2x2 determinant is 0 or +-1, +-2, +-4, and *)
(* ratios that are multiples of 1/8, so every float operation of the       *)
(* modelled paths is exact and is modelled by exact rational arithmetic on *)
(* integer numerators over a common positive denominator.                  *)
(***************************************************************************)
EXTENDS Integers, Sequences, FiniteSets

VARIABLES
    pc,                \* position of the modelled call
    image,             \* ImageMatrix* argument of the call
    ret,               \* value returned by the call
    failed,            \* allocations of the call that returned NULL
    transform,         \* TransformMatrix* argument of applyTransformation
    compressionRatio,  \* float argument of compressSVD, <<numerator, denominator>>
    k,                 \* compressSVD: number of singular values kept
    chan,              \* compressSVD: the channel loop variable c
    live,              \* compressSVD: allocations made by the call and not yet freed
    compressedImage,   \* compressSVD: the output image under construction
    channelState,      \* compressSVD: how each channel of the output was written
    allocs,            \* compressSVD: allocations of each temporary in this channel
    frees,             \* compressSVD: frees of each temporary in this channel
    heap,              \* multiplyMatrices: the allocated TransformMatrix objects
    call,              \* multiplyMatrices: the last call, its arguments and result
    ATA,               \* jacobiSVD: diagonal of the rotated covariance matrix
    S,                 \* jacobiSVD: singular values (the array S of compressSVD)
    eigenvectors,      \* jacobiSVD: eigenvector accumulator, one column per value
    si,                \* jacobiSVD: outer index i of the sort
    sj,                \* jacobiSVD: inner index j of the sort
    preS,              \* jacobiSVD: S as extracted, before the sort
    preEigenvectors,   \* jacobiSVD: eigenvectors before the sort
    jacobiA,           \* Jacobi loop: the covariance matrix ATA being rotated
    jacobiV,           \* Jacobi loop: the eigenvector accumulator as initialised
    rotatedColumns,    \* Jacobi loop: columns of the accumulator a rotation rewrote
    iter,              \* Jacobi loop: the loop variable iter
    pivot,             \* Jacobi loop: <<p, q>> of the last off-diagonal scan
    rotations,         \* Jacobi loop: calls of jacobiRotation so far
    jacobiInput        \* Jacobi loop: the covariance matrix the loop started from

callVars == <<pc, image, ret, failed>>

transformVars == <<transform>>

compressVars ==
    <<compressionRatio, k, chan, live, compressedImage, channelState, allocs,
      frees>>

composeVars == <<heap, call>>

sortWork == <<ATA, eigenvectors, si, sj, preS, preEigenvectors>>

sortVars == <<S, sortWork>>

jacobiVars ==
    <<jacobiA, jacobiV, rotatedColumns, iter, pivot, rotations, jacobiInput>>

vars ==
    <<callVars, transformVars, compressVars, composeVars, sortVars, jacobiVars>>

----------------------------------------------------------------------------
(* Bounds of the model *)

MaxDim == 3

MaxHeap == 3

----------------------------------------------------------------------------
(* Small helpers *)

Abs(v) == IF v < 0 THEN -v ELSE v

----------------------------------------------------------------------------
(* ImageMatrix values.  A pointer is a record; kind tells NULL from an     *)
(* object.  data is the byte buffer, 1-based here, 0-based in C; dataNull  *)
(* says that the data pointer itself is NULL.                              *)

NullImage ==
    [kind |-> "null", width |-> 0, height |-> 0, channels |-> 0,
     dataNull |-> TRUE, data |-> <<>>]

TrapImage ==
    [kind |-> "trap", width |-> 0, height |-> 0, channels |-> 0,
     dataNull |-> TRUE, data |-> <<>>]

MkImage(w, h, ch, bytes) ==
    [kind |-> "image", width |-> w, height |-> h, channels |-> ch,
     dataNull |-> FALSE, data |-> bytes]

\* size_t dataSize = width * height * channels
dataSize(w, h, ch) == w * h * ch

\* Index of byte (y, x, c) in the interleaved row-major buffer.
ByteIndex(w, ch, y, x, c) == (y * w + x) * ch + c + 1

\* Input pixel patterns.
Patterns == {"zero", "ramp", "red"}

PatternByte(pat, ch, i) ==
    CASE pat = "zero" -> 0
      [] pat = "ramp" -> (37 * (i - 1) + 200) % 256
      [] pat = "red"  -> IF (i - 1) % ch = 0 THEN 255 - ((i - 1) \div ch) ELSE 0

PatternImage(w, h, ch, pat) ==
    MkImage(w, h, ch, [i \in 1..dataSize(w, h, ch) |-> PatternByte(pat, ch, i)])

Dims == 1..MaxDim

ChannelCounts == {1, 2, 3, 4}

SupportedChannels == {1, 3, 4}

ValidImages ==
    {PatternImage(w, h, ch, pat) :
        w \in Dims, h \in Dims, ch \in ChannelCounts, pat \in Patterns}

\* Width/height pairs with a non-positive side.
BadDims == {<<0, 1>>, <<1, 0>>, <<0, 0>>, <<-1, 1>>, <<2, -1>>, <<-1, -1>>}

BadDimImages ==
    {[kind |-> "image", width |-> d[1], height |-> d[2], channels |-> 1,
      dataNull |-> FALSE, data |-> <<>>] : d \in BadDims}

\* An ImageMatrix whose data pointer is NULL.
NullDataImages ==
    {[kind |-> "image", width |-> w, height |-> w, channels |-> 1,
      dataNull |-> TRUE, data |-> <<>>] : w \in {1, 2}}

----------------------------------------------------------------------------
(* createImageMatrix: two mallocs, then memset to zero.  okMatrix / okData *)
(* are the outcomes of the two mallocs.  A negative int product converted  *)
(* to size_t is a request larger than the address space: malloc fails.     *)
(* malloc(0) may return NULL or a pointer: both outcomes are covered by    *)
(* okData.                                                                 *)

\* Mutant: the buffer is left as malloc returned it.
memsetSkipped(n) == [i \in 1..n |-> 205]

\* memset(matrix->data, 0, dataSize)
memsetZero(n) == [i \in 1..n |-> 0]

createImageMatrix(w, h, ch, okMatrix, okData) ==
    IF ~okMatrix THEN NullImage
    ELSE IF dataSize(w, h, ch) < 0 \/ ~okData THEN NullImage
    ELSE MkImage(w, h, ch, memsetZero(dataSize(w, h, ch)))

\* The mallocs of createImageMatrix that returned NULL.
createImageMatrixFailed(w, h, ch, okMatrix, okData) ==
    IF ~okMatrix THEN {"matrix"}
    ELSE IF dataSize(w, h, ch) < 0 \/ ~okData THEN {"data"}
    ELSE {}

----------------------------------------------------------------------------
(* TransformMatrix values: a pointer to float m[3][3]; m[i][j] of the C    *)
(* code is m[i+1][j+1] here.                                               *)

Identity3 == <<<<1, 0, 0>>, <<0, 1, 0>>, <<0, 0, 1>>>>

NullTransform == [kind |-> "null", m |-> Identity3]

MkTransform(m) == [kind |-> "matrix", m |-> m]

\* createIdentityMatrix (its malloc succeeding)
createIdentityMatrix == MkTransform(Identity3)

DiagEntries == {-1, 0, 1, 2}

OffEntries == {-1, 0, 1}

TranslationEntries == {0, 3}

\* float det = m[0][0] * m[1][1] - m[0][1] * m[1][0]
det(tr) == tr.m[1][1] * tr.m[2][2] - tr.m[1][2] * tr.m[2][1]

\* Determinants for which 1.0f / det is exact in float.
ExactDet(d) == Abs(d) \in {0, 1, 2, 4}

Transforms ==
    {t \in {MkTransform(<<<<a, b, tx>>, <<c, d, 0>>, <<0, 0, 1>>>>) :
                a \in DiagEntries, b \in OffEntries, c \in OffEntries,
                d \in DiagEntries, tx \in TranslationEntries} :
        ExactDet(det(t))}

\* 1e-6 as 1 / DetEpsilonInv
DetEpsilonInv == 1000000

\* if (fabs(det) < 1e-6) continue;
Singular(tr) == Abs(det(tr)) * DetEpsilonInv < 1

(* The mapped source coordinate.  With srcX = x - w/2, srcY = y - h/2,     *)
(*   origX = ( m11*srcX - m01*srcY) / det + w/2                            *)
(*   origY = (-m10*srcX + m00*srcY) / det + h/2                            *)
(* both are numerators over the common denominator origDen = 2*|det|.      *)

Sign(d) == IF d < 0 THEN -1 ELSE 1

origDen(tr) == 2 * Abs(det(tr))

\* Mutant: the centre offset is not added back.
origXNumNoCenter(tr, w, h, x, y) ==
    Sign(det(tr)) * (tr.m[2][2] * (2 * x - w) - tr.m[1][2] * (2 * y - h))

origXNum(tr, w, h, x, y) ==
    Sign(det(tr)) * (tr.m[2][2] * (2 * x - w) - tr.m[1][2] * (2 * y - h))
        + w * Abs(det(tr))

origYNum(tr, w, h, x, y) ==
    Sign(det(tr)) * (tr.m[1][1] * (2 * y - h) - tr.m[2][1] * (2 * x - w))
        + h * Abs(det(tr))

\* Mutant: the upper bounds are inclusive (<= dim - 1).
InBoundsInclusive(nx, ny, den, w, h) ==
    /\ nx >= 0
    /\ nx <= (w - 1) * den
    /\ ny >= 0
    /\ ny <= (h - 1) * den

\* if (origX >= 0 && origX < width - 1 && origY >= 0 && origY < height - 1)
InBounds(nx, ny, den, w, h) ==
    /\ nx >= 0
    /\ nx < (w - 1) * den
    /\ ny >= 0
    /\ ny < (h - 1) * den

\* Destination pixel (x, y) passes both the determinant and the bounds test.
Accepted(tr, w, h, x, y) ==
    /\ ~Singular(tr)
    /\ InBounds(origXNum(tr, w, h, x, y), origYNum(tr, w, h, x, y),
                origDen(tr), w, h)

\* image->data[(y * width + x) * channels + c].  A read through a NULL data
\* pointer or outside the buffer is undefined: it yields the byte garbage.
Pixel(img, y, x, c, garbage) ==
    LET i == ByteIndex(img.width, img.channels, y, x, c)
    IN IF ~img.dataNull /\ i \in DOMAIN img.data THEN img.data[i] ELSE garbage

\* Bilinear interpolation of channel c at (nx/den, ny/den), truncated to a byte.
Bilinear(img, nx, ny, den, c, garbage) ==
    LET x0 == nx \div den
        y0 == ny \div den
        x1 == x0 + 1
        y1 == y0 + 1
        dx == nx - x0 * den
        dy == ny - y0 * den
        p00 == Pixel(img, y0, x0, c, garbage)
        p01 == Pixel(img, y0, x1, c, garbage)
        p10 == Pixel(img, y1, x0, c, garbage)
        p11 == Pixel(img, y1, x1, c, garbage)
        value == (den - dx) * (den - dy) * p00 + dx * (den - dy) * p01
                   + (den - dx) * dy * p10 + dx * dy * p11
    IN value \div (den * den)

\* The byte the loops leave at 1-based index i of result->data, which held
\* the byte default before them.
DestByte(img, tr, i, default, garbage) ==
    LET w == img.width
        h == img.height
        ch == img.channels
    IN IF w <= 0 \/ h <= 0 \/ ch <= 0 THEN default
       ELSE LET c == (i - 1) % ch
                x == ((i - 1) \div ch) % w
                y == ((i - 1) \div ch) \div w
            IN IF Accepted(tr, w, h, x, y)
               THEN Bilinear(img, origXNum(tr, w, h, x, y), origYNum(tr, w, h, x, y),
                             origDen(tr), c, garbage)
               ELSE default

\* Some accepted pixel makes the loops read image->data.
ReadsData(img, tr) ==
    /\ img.width > 0 /\ img.height > 0 /\ img.channels > 0
    /\ \E x \in 0..(img.width - 1), y \in 0..(img.height - 1) :
           Accepted(tr, img.width, img.height, x, y)

(* applyTransformation.  okMatrix, okData: the mallocs of createImageMatrix.*)
(* Reading through a NULL image->data is undefined behaviour: the call     *)
(* either traps or reads the byte garbage.                                 *)
applyTransformation(img, tr, okMatrix, okData, trap, garbage) ==
    IF img.kind = "null" \/ tr.kind = "null" THEN NullImage
    ELSE LET result == createImageMatrix(img.width, img.height, img.channels,
                                         okMatrix, okData)
         IN IF result.kind = "null" THEN NullImage
            ELSE IF img.dataNull /\ ReadsData(img, tr) /\ trap THEN TrapImage
            ELSE [result EXCEPT
                     !.data = [i \in DOMAIN result.data |->
                                  DestByte(img, tr, i, result.data[i], garbage)]]

GarbageBytes == {0, 255}

\* The outcomes of undefined reads: only a NULL image->data leads to any.
UndefinedOutcomes(img) ==
    IF img.kind = "image" /\ img.dataNull
    THEN BOOLEAN \X GarbageBytes
    ELSE {<<FALSE, 0>>}

----------------------------------------------------------------------------
(* Values of the variables a specification does not use *)

NoCall == [op |-> "none", m1 |-> 0, m2 |-> 0, ret |-> 0, pre |-> <<>>]

IdleCall == image = NullImage /\ ret = NullImage /\ failed = {}

IdleTransform == transform = NullTransform

IdleCompress ==
    /\ compressionRatio = <<0, 1>>
    /\ k = 0
    /\ chan = 0
    /\ live = {}
    /\ compressedImage = NullImage
    /\ channelState = <<>>
    /\ allocs = <<>>
    /\ frees = <<>>

IdleCompose == heap = <<>> /\ call = NoCall

IdleSort ==
    /\ ATA = <<>>
    /\ S = <<>>
    /\ eigenvectors = <<>>
    /\ si = 0
    /\ sj = 0
    /\ preS = <<>>
    /\ preEigenvectors = <<>>

IdleJacobi ==
    /\ jacobiA = <<>>
    /\ jacobiV = <<>>
    /\ rotatedColumns = {}
    /\ iter = 0
    /\ pivot = <<0, 0>>
    /\ rotations = 0
    /\ jacobiInput = <<>>

----------------------------------------------------------------------------
(* Specification of one applyTransformation call *)

TransformImages ==
    {NullImage} \cup ValidImages \cup BadDimImages \cup NullDataImages

InitTransform ==
    /\ pc = "call"
    /\ image \in TransformImages
    /\ transform \in Transforms \cup {NullTransform}
    /\ ret = NullImage
    /\ failed = {}
    /\ IdleCompress /\ IdleCompose /\ IdleSort /\ IdleJacobi

ApplyTransformation ==
    /\ pc = "call"
    /\ \E okMatrix \in BOOLEAN, okData \in BOOLEAN, u \in UndefinedOutcomes(image) :
           /\ ret' = applyTransformation(image, transform, okMatrix, okData,
                                         u[1], u[2])
           /\ failed' = IF image.kind = "null" \/ transform.kind = "null" THEN {}
                        ELSE createImageMatrixFailed(image.width, image.height,
                                 image.channels, okMatrix, okData)
    /\ pc' = "returned"
    /\ UNCHANGED <<image, transform, compressVars, composeVars, sortVars, jacobiVars>>

NextTransform == ApplyTransformation

SpecTransform == InitTransform /\ [][NextTransform]_vars

----------------------------------------------------------------------------
(* jacobiSVD: the Jacobi iterations on the dim x dim covariance matrix.    *)
(* Entries are held in units of half the convergence epsilon.  What a      *)
(* rotation computes through atan2, cosf and sinf is not computed here:    *)
(* an entry that jacobiRotation recomputes becomes any of RotatedValues    *)
(* (a pair of zeros stays a pair of zeros), the entries it assigns 0.0f    *)
(* become 0, and the others are kept.  The accumulator is held as          *)
(* initIdentityMatrix wrote it, with the set of columns that a rotation    *)
(* has rewritten since.  Indices are 0-based as in C; matrices are 1-based.*)

\* const int MAX_ITERATIONS = 150
MAX_ITERATIONS == 150

\* const float EPSILON = 1e-8f, in units of half of it
EPSILON == 2

\* Entries of a covariance matrix of bytes: zero, or far above EPSILON.
CovarianceValues == {0, EPSILON + 1}

\* Recomputed entries: zero, below EPSILON, and a negative one far above.
RotatedValues == {0, EPSILON - 1, -(EPSILON + 2)}

\* What a read past the end of a row can return.
GarbageValues == {0, EPSILON + 1}

Indices(n) == 0..(n - 1)

\* The (i, j) that the two loops of findLargestOffDiagonal visit.
OffDiagonal(n) == {e \in Indices(n) \X Indices(n) : e[1] < e[2]}

\* (i, j) is visited before (i2, j2)
VisitedBefore(e, f) == e[1] < f[1] \/ (e[1] = f[1] /\ e[2] < f[2])

Entry(A, e) == A[e[1] + 1][e[2] + 1]

\* findLargestOffDiagonal(A, n, &p, &q): *p = 0, *q = 1, then the first
\* entry of the scan whose magnitude exceeds every one before it and is
\* not exceeded after it.
findLargestOffDiagonal(A, n) ==
    LET largest == {e \in OffDiagonal(n) :
                       /\ Abs(Entry(A, e)) > 0
                       /\ \A f \in OffDiagonal(n) :
                             Abs(Entry(A, f)) <= Abs(Entry(A, e))}
    IN IF largest = {} THEN <<0, 1>>
       ELSE CHOOSE e \in largest :
                \A f \in largest : e = f \/ VisitedBefore(e, f)

\* Both indices of the pivot are indices of the n x n matrices.
PivotInside(pq, n) == pq[1] \in Indices(n) /\ pq[2] \in Indices(n)

\* initIdentityMatrix(matrix, size)
initIdentityMatrix(size) ==
    [i \in 1..size |-> [j \in 1..size |-> IF i = j THEN 1 ELSE 0]]

\* jacobiRotation(A, V, n, p, q) on A: d gives new_app and new_aqq, f the
\* recomputed A[i][p] and A[i][q] of the other rows i.
rotated(A, n, p, q, d, f) ==
    [r \in 1..n |-> [col \in 1..n |->
        LET i == r - 1
            j == col - 1
        IN IF i \in {p, q} /\ j \in {p, q}
           THEN (IF i = j THEN d[i] ELSE 0)
           ELSE IF j \in {p, q} THEN f[<<i, j>>]
           ELSE IF i \in {p, q} THEN f[<<j, i>>]
           ELSE A[r][col]]]

\* The matrices jacobiRotation(A, V, n, p, q) can leave in A.
jacobiRotation(A, n, p, q) ==
    LET others == Indices(n) \ {p, q}
        recomputed == {f \in [others \X {p, q} -> RotatedValues] :
                          \A i \in others :
                              (A[i + 1][p + 1] = 0 /\ A[i + 1][q + 1] = 0)
                                  => (f[<<i, p>>] = 0 /\ f[<<i, q>>] = 0)}
    IN {rotated(A, n, p, q, d, f) : d \in [{p, q} -> CovarianceValues],
                                    f \in recomputed}

\* Symmetric matrices with the entries of a covariance matrix; a column
\* of zeros in the channel gives a zero row and column.
Covariances(n) ==
    {M \in [1..n -> [1..n -> CovarianceValues]] :
        \A i \in 1..n, j \in 1..n :
            /\ M[i][j] = M[j][i]
            /\ (i # j /\ M[i][j] # 0) => (M[i][i] # 0 /\ M[j][j] # 0)}

InitJacobi ==
    /\ pc = "scan"
    /\ \E n \in 1..MaxDim :
          /\ jacobiA \in Covariances(n)
          /\ jacobiV = initIdentityMatrix(n)
    /\ jacobiInput = jacobiA
    /\ rotatedColumns = {}
    /\ iter = 0
    /\ pivot = <<0, 0>>
    /\ rotations = 0
    /\ IdleCall /\ IdleTransform /\ IdleCompress /\ IdleCompose /\ IdleSort

\* for (iter = 0; iter < MAX_ITERATIONS; ...): the loop test, then the scan.
JacobiScan ==
    /\ pc = "scan"
    /\ IF iter < MAX_ITERATIONS
       THEN /\ pivot' = findLargestOffDiagonal(jacobiA, Len(jacobiA))
            /\ pc' = "test"
       ELSE /\ pc' = "extract"
            /\ UNCHANGED pivot
    /\ UNCHANGED <<jacobiA, jacobiV, rotatedColumns, iter, rotations,
                   jacobiInput, image, ret, failed, transformVars,
                   compressVars, composeVars, sortVars>>

\* if (fabs(ATA[p][q]) < EPSILON) break; jacobiRotation(...); iter++
\* A pivot outside the matrix makes the read return anything, and the
\* rotation that may follow reads through a pointer past the row array.
JacobiTest ==
    /\ pc = "test"
    /\ LET n == Len(jacobiA)
           inside == PivotInside(pivot, n)
       IN \E a_pq \in (IF inside THEN {Entry(jacobiA, pivot)} ELSE GarbageValues) :
             IF Abs(a_pq) < EPSILON
             THEN /\ pc' = "extract"
                  /\ UNCHANGED <<jacobiA, rotatedColumns, iter, rotations>>
             ELSE /\ rotations' = rotations + 1
                  /\ IF inside
                     THEN /\ jacobiA' \in jacobiRotation(jacobiA, n, pivot[1], pivot[2])
                          /\ rotatedColumns' = rotatedColumns \cup {pivot[1], pivot[2]}
                          /\ iter' = iter + 1
                          /\ pc' = "scan"
                     ELSE /\ pc' = "undefined"
                          /\ UNCHANGED <<jacobiA, rotatedColumns, iter>>
    /\ UNCHANGED <<jacobiV, pivot, jacobiInput, image, ret, failed,
                   transformVars, compressVars, composeVars, sortVars>>

NextJacobi == JacobiScan \/ JacobiTest

SpecJacobi == InitJacobi /\ [][NextJacobi]_vars

----------------------------------------------------------------------------
(* compressSVD.  The call is followed allocation by allocation.  The    *)
(* float pipeline of jacobiSVD is not computed.  S is held in units of     *)
(* 1e-6.  A completed jacobiSVD leaves zeros in S for an all-zero channel  *)
(* (every product and square root is then exactly 0), and otherwise a      *)
(* first value above 1e-6 followed by any values: S[0]^2 is the largest    *)
(* diagonal entry of the rotated covariance, whose trace is the channel's  *)
(* sum of squares.  The bytes of a reconstructed channel are left out      *)
(* (channelState marks the channel "reconstructed").  allocs and frees     *)
(* count, per temporary, the allocations that succeeded and the calls of   *)
(* free on a non-NULL pointer since the channel began.                     *)

\* compressionRatio values, <<numerator, denominator>>, all exact floats.
Ratios ==
    {<<-1, 2>>, <<0, 1>>, <<3, 8>>, <<1, 2>>, <<7, 8>>, <<1, 1>>, <<3, 2>>}

\* int maxRank = (width < height) ? width : height
maxRankOf(w, h) == IF w < h THEN w ELSE h

\* Mutant: the product is rounded to the nearest integer.
scaledRankRounded(maxRank, ratio) ==
    IF maxRank * ratio[1] >= 0
    THEN (2 * maxRank * ratio[1] + ratio[2]) \div (2 * ratio[2])
    ELSE -((2 * (-(maxRank * ratio[1])) + ratio[2]) \div (2 * ratio[2]))

\* (int)(maxRank * compressionRatio): the conversion truncates toward zero
scaledRank(maxRank, ratio) ==
    IF maxRank * ratio[1] >= 0
    THEN (maxRank * ratio[1]) \div ratio[2]
    ELSE -((-(maxRank * ratio[1])) \div ratio[2])

\* if (k < 1) k = 1; if (k > maxRank) k = maxRank;
keptRank(maxRank, ratio) ==
    LET k0 == scaledRank(maxRank, ratio)
        k1 == IF k0 < 1 THEN 1 ELSE k0
    IN IF k1 > maxRank THEN maxRank ELSE k1

\* Channel c (0-based) of the image has a non-zero byte.
channelNonZero(img, c) ==
    \E i \in DOMAIN img.data : (i - 1) % img.channels = c /\ img.data[i] # 0

\* compressedImage->data[...c] = image->data[...c] for every pixel
copyChannel(out, img, c) ==
    [out EXCEPT !.data = [i \in DOMAIN out.data |->
                             IF (i - 1) % img.channels = c THEN img.data[i]
                             ELSE out.data[i]]]

Failing(name, ok) == IF ok THEN {} ELSE {name}

Got(name, ok) == IF ok THEN {name} ELSE {}

\* The allocations of compressSVD and jacobiSVD other than the output image.
Temporaries ==
    {"A", "U", "S", "V", "A_copy", "AT", "ATA", "eigenvectors", "VS_inv",
     "US_inv", "temp", "US"}

NoCounts == [t \in Temporaries |-> 0]

Count(f, names) == [t \in DOMAIN f |-> IF t \in names THEN f[t] + 1 ELSE f[t]]

\* 1e-6 of the valid_svd test, in units of 1e-6
SvdThreshold == 1

\* Values of S: below, at and above the threshold.
SingularValues == 0..(SvdThreshold + 1)

\* for (i < maxRank) S[i] = 0.0f
zeroS(maxRank) == [i \in 1..maxRank |-> 0]

\* What a completed jacobiSVD can leave in S for channel c.
ComputedS(img, c) ==
    LET maxRank == maxRankOf(img.width, img.height)
    IN IF channelNonZero(img, c)
       THEN {s \in [1..maxRank -> SingularValues] : s[1] > SvdThreshold}
       ELSE {zeroS(maxRank)}

\* Mutant: a singular value passes the test when it is not negative.
validSvdNonNegative(s, kk) == \E i \in 1..kk : s[i] >= 0

\* for (i < k) if (S[i] > 1e-6) { valid_svd = 1; break; }
validSvd(s, kk) == \E i \in 1..kk : s[i] > SvdThreshold

\* Mutant: the eigenvector accumulator is not freed.
jacobiFreesLeak(wide) ==
    IF wide THEN {"AT", "US_inv", "temp", "ATA"}
    ELSE {"VS_inv", "temp", "ATA"}

\* The matrices a completed jacobiSVD frees after its iterations.
jacobiFrees(wide) ==
    IF wide THEN {"AT", "US_inv", "temp", "ATA", "eigenvectors"}
    ELSE {"VS_inv", "temp", "ATA", "eigenvectors"}

\* The pattern "red" has a non-zero channel 0 and zero channels after it.
CompressImages ==
    {NullImage} \cup {img \in ValidImages : \A i \in DOMAIN img.data :
                          img.data[i] = PatternByte("zero", img.channels, i)
                          \/ img.data[i] = PatternByte("red", img.channels, i)}

InitCompress ==
    /\ pc = "call"
    /\ image \in CompressImages
    /\ compressionRatio \in Ratios
    /\ ret = NullImage
    /\ failed = {}
    /\ k = 0
    /\ chan = 0
    /\ live = {}
    /\ compressedImage = NullImage
    /\ channelState = <<>>
    /\ allocs = <<>>
    /\ frees = <<>>
    /\ IdleTransform /\ IdleCompose /\ IdleSort /\ IdleJacobi

\* return NULL from compressSVD
ReturnNull ==
    /\ pc' = "returned"
    /\ ret' = NullImage
    /\ compressedImage' = NullImage

\* Entry of compressSVD up to the channel loop.
CompressEntry ==
    /\ pc = "call"
    /\ IF image.kind = "null"
       THEN /\ ReturnNull
            /\ UNCHANGED <<failed, k, chan, live, channelState>>
       ELSE \E okMatrix \in BOOLEAN, okData \in BOOLEAN :
            LET out == createImageMatrix(image.width, image.height,
                                         image.channels, okMatrix, okData)
            IN /\ k' = keptRank(maxRankOf(image.width, image.height),
                                compressionRatio)
               /\ failed' = createImageMatrixFailed(image.width, image.height,
                                image.channels, okMatrix, okData)
               /\ IF out.kind = "null"
                  THEN /\ ReturnNull
                       /\ UNCHANGED <<chan, live, channelState>>
                  ELSE /\ compressedImage' = out
                       /\ live' = {"compressedImage"}
                       /\ chan' = 0
                       /\ channelState' = [c \in 1..image.channels |-> "unwritten"]
                       /\ pc' = "allocA"
                       /\ UNCHANGED ret
    /\ UNCHANGED <<image, compressionRatio, allocs, frees, transformVars,
                   composeVars, sortVars, jacobiVars>>

\* float** A = allocateMatrix(height, width), and the copy of the channel.
AllocateChannelMatrix ==
    /\ pc = "allocA"
    /\ \E okA \in BOOLEAN :
          /\ failed' = failed \cup Failing("A", okA)
          /\ allocs' = Count(NoCounts, Got("A", okA))
          /\ frees' = NoCounts
          /\ IF okA
             THEN /\ live' = live \cup {"A"}
                  /\ pc' = "allocUSV"
                  /\ UNCHANGED <<ret, compressedImage>>
             ELSE /\ live' = live \ {"compressedImage"}
                  /\ ReturnNull
    /\ UNCHANGED <<image, compressionRatio, k, chan, channelState,
                   transformVars, composeVars, sortVars, jacobiVars>>

\* U, S and V are allocated, then tested together; S is zeroed.
AllocateSVDComponents ==
    /\ pc = "allocUSV"
    /\ \E okU \in BOOLEAN, okS \in BOOLEAN, okV \in BOOLEAN :
          LET got == Got("U", okU) \cup Got("S", okS) \cup Got("V", okV)
          IN /\ failed' = failed \cup Failing("U", okU) \cup Failing("S", okS)
                                 \cup Failing("V", okV)
             /\ allocs' = Count(allocs, got)
             /\ IF okU /\ okS /\ okV
                THEN /\ live' = live \cup {"U", "S", "V"}
                     /\ S' = zeroS(maxRankOf(image.width, image.height))
                     /\ pc' = "jacobiSetup"
                     /\ UNCHANGED <<ret, compressedImage, frees>>
                ELSE /\ frees' = Count(frees, {"A"} \cup got)
                     /\ live' = live \ {"A", "compressedImage"}
                     /\ ReturnNull
                     /\ UNCHANGED S
    /\ UNCHANGED <<image, compressionRatio, k, chan, channelState,
                   transformVars, composeVars, sortWork, jacobiVars>>

(* jacobiSVD up to its test of ATA and eigenvectors: the copy of A, the    *)
(* covariance (a transpose, then a product, the transpose freed) and the   *)
(* eigenvector accumulator, which initIdentityMatrix writes through        *)
(* without a test; then the copy of A is freed.                            *)
JacobiSetup ==
    /\ pc = "jacobiSetup"
    /\ \E okCopy \in BOOLEAN, okAT \in BOOLEAN, okProduct \in BOOLEAN,
          okEig \in BOOLEAN :
          LET copy == Got("A_copy", okCopy)
              at == Got("AT", okAT)
              ata == Got("ATA", okAT /\ okProduct)
              eig == Got("eigenvectors", okEig)
          IN /\ okAT \/ okProduct
             /\ failed' = failed \cup Failing("A_copy", okCopy)
                                 \cup Failing("AT", okAT)
                                 \cup Failing("ATA", okProduct)
                                 \cup Failing("eigenvectors", okEig)
             /\ allocs' = Count(allocs, copy \cup at \cup ata \cup eig)
             /\ IF ~okEig
                THEN \* initIdentityMatrix(NULL, n) with n >= 1
                     /\ pc' = "undefined"
                     /\ frees' = Count(frees, at)
                     /\ live' = live \cup copy \cup ata
                ELSE IF ~(okAT /\ okProduct)
                THEN \* ATA is NULL: eigenvectors is freed, jacobiSVD returns
                     /\ pc' = "reconstruct"
                     /\ frees' = Count(frees, at \cup copy \cup eig)
                     /\ live' = live
                ELSE /\ pc' = "jacobiFactor"
                     /\ frees' = Count(frees, at \cup copy)
                     /\ live' = live \cup ata \cup eig
    /\ UNCHANGED <<image, ret, compressionRatio, k, chan, compressedImage,
                   channelState, transformVars, composeVars, sortVars,
                   jacobiVars>>

(* The rest of jacobiSVD.  The iterations, the extraction and the sort    *)
(* allocate nothing; on a 1 x 1 covariance the first scan leaves the pivot *)
(* (0, 1), the convergence test reads past the only row, and a value that  *)
(* is not below EPSILON sends jacobiRotation through a pointer read past   *)
(* the row array.  Then U or V is derived through temporaries that are     *)
(* written without a test.  width <= height: VS_inv, temp.  Otherwise: AT, *)
(* US_inv, temp.  Last, ATA and eigenvectors are freed.                    *)
JacobiFactor ==
    /\ pc = "jacobiFactor"
    /\ \E okAT \in BOOLEAN, okInv \in BOOLEAN, okTemp \in BOOLEAN,
          a_pq \in GarbageValues :
          LET wide == ~(image.width <= image.height)
              inv == IF wide THEN "US_inv" ELSE "VS_inv"
              got == Got("AT", wide /\ okAT) \cup Got(inv, okInv)
                        \cup Got("temp", okInv /\ okTemp)
              dim == maxRankOf(image.width, image.height)
              \* *p = 0, *q = 1 stands when the scan visits no entry
              inside == OffDiagonal(dim) # {} \/ PivotInside(<<0, 1>>, dim)
          IN IF ~inside /\ ~(Abs(a_pq) < EPSILON)
             THEN /\ okAT /\ okInv /\ okTemp
                  /\ pc' = "undefined"
                  /\ UNCHANGED <<failed, allocs, frees, live, S>>
             ELSE
             /\ inside => a_pq = 0
             /\ wide \/ okAT
             /\ okInv \/ okTemp
             /\ failed' = failed \cup Failing("AT", okAT) \cup Failing(inv, okInv)
                                 \cup Failing("temp", okTemp)
             /\ allocs' = Count(allocs, got)
             /\ IF okAT /\ okInv /\ okTemp
                THEN /\ S' \in ComputedS(image, chan)
                     /\ frees' = Count(frees, jacobiFrees(wide))
                     /\ live' = (live \cup got) \ jacobiFrees(wide)
                     /\ pc' = "reconstruct"
                ELSE \* a NULL temporary is written or read
                     /\ pc' = "undefined"
                     /\ live' = live \cup got
                     /\ UNCHANGED <<S, frees>>
    /\ UNCHANGED <<image, ret, compressionRatio, k, chan, compressedImage,
                   channelState, transformVars, composeVars, sortWork,
                   jacobiVars>>

(* After jacobiSVD: the valid_svd test, the copy or the reconstruction of  *)
(* the channel, the frees, and the next channel or the return.  S keeps    *)
(* the values the test read.                                               *)
Reconstruct ==
    /\ pc = "reconstruct"
    /\ LET valid_svd == validSvd(S, k)
       IN \E okUS \in BOOLEAN :
             /\ valid_svd \/ okUS
             /\ failed' = IF valid_svd THEN failed \cup Failing("US", okUS) ELSE failed
             /\ allocs' = Count(allocs, Got("US", valid_svd /\ okUS))
             /\ frees' = Count(frees, Got("US", valid_svd /\ okUS)
                                         \cup {"A", "U", "S", "V"})
             /\ IF valid_svd /\ okUS
                THEN /\ channelState' = [channelState EXCEPT ![chan + 1] = "reconstructed"]
                     /\ compressedImage' = compressedImage
                ELSE /\ channelState' = [channelState EXCEPT ![chan + 1] = "copied"]
                     /\ compressedImage' = copyChannel(compressedImage, image, chan)
    /\ live' = live \ {"A", "U", "S", "V"}
    /\ chan' = chan + 1
    /\ IF chan + 1 < image.channels
       THEN pc' = "allocA" /\ UNCHANGED ret
       ELSE pc' = "returned" /\ ret' = compressedImage'
    /\ UNCHANGED <<image, compressionRatio, k, transformVars, composeVars,
                   sortVars, jacobiVars>>

NextCompress ==
    \/ CompressEntry
    \/ AllocateChannelMatrix
    \/ AllocateSVDComponents
    \/ JacobiSetup
    \/ JacobiFactor
    \/ Reconstruct

SpecCompress == InitCompress /\ [][NextCompress]_vars

----------------------------------------------------------------------------
(* multiplyMatrices.  heap holds the allocated TransformMatrix objects: a  *)
(* pointer is an index of heap, 0 is NULL, malloc returns the next index.  *)

ComposeRows == {<<1, 0, 0>>, <<0, 1, 0>>, <<0, 0, 1>>, <<2, -1, 3>>, <<-2, 5, 7>>}

ComposeMatrices == {<<r1, r2, r3>> : r1 \in ComposeRows, r2 \in ComposeRows,
                                      r3 \in ComposeRows}

\* Mutant: the second factor is indexed [j][k] instead of [k][j].
productTransposed(a, b) ==
    [i \in 1..3 |-> [j \in 1..3 |->
        0 + a[i][1] * b[j][1] + a[i][2] * b[j][2] + a[i][3] * b[j][3]]]

\* result->m[i][j] = 0; result->m[i][j] += m1->m[i][k] * m2->m[k][j], k = 0..2
product(a, b) ==
    [i \in 1..3 |-> [j \in 1..3 |->
        0 + a[i][1] * b[1][j] + a[i][2] * b[2][j] + a[i][3] * b[3][j]]]

InitCompose ==
    /\ pc = "compose"
    /\ heap \in {<<m>> : m \in ComposeMatrices}
    /\ call = NoCall
    /\ IdleCall /\ IdleTransform /\ IdleCompress /\ IdleSort /\ IdleJacobi

\* createIdentityMatrix()
CreateIdentityMatrix ==
    /\ Len(heap) < MaxHeap
    /\ \E ok \in BOOLEAN :
          /\ heap' = IF ok THEN Append(heap, Identity3) ELSE heap
          /\ call' = [op |-> "createIdentityMatrix", m1 |-> 0, m2 |-> 0,
                      ret |-> IF ok THEN Len(heap) + 1 ELSE 0, pre |-> heap]
          /\ failed' = Failing("matrix", ok)
    /\ UNCHANGED <<pc, image, ret, transformVars, compressVars, sortVars, jacobiVars>>

\* multiplyMatrices(m1, m2)
MultiplyMatrices ==
    /\ Len(heap) < MaxHeap
    /\ \E m1 \in 0..Len(heap), m2 \in 0..Len(heap), ok \in BOOLEAN :
          IF m1 = 0 \/ m2 = 0
          THEN /\ ok
               /\ heap' = heap
               /\ call' = [op |-> "multiplyMatrices", m1 |-> m1, m2 |-> m2,
                           ret |-> 0, pre |-> heap]
               /\ failed' = {}
          ELSE /\ heap' = IF ok THEN Append(heap, product(heap[m1], heap[m2]))
                          ELSE heap
               /\ call' = [op |-> "multiplyMatrices", m1 |-> m1, m2 |-> m2,
                           ret |-> IF ok THEN Len(heap) + 1 ELSE 0, pre |-> heap]
               /\ failed' = Failing("result", ok)
    /\ UNCHANGED <<pc, image, ret, transformVars, compressVars, sortVars, jacobiVars>>

NextCompose == CreateIdentityMatrix \/ MultiplyMatrices

SpecCompose == InitCompose /\ [][NextCompose]_vars

----------------------------------------------------------------------------
(* jacobiSVD: the extraction of the singular values from the diagonal of   *)
(* the rotated covariance, and the sort.  ATA is that diagonal; the entries*)
(* of eigenvectors are labels 10*row + column, so that a column can be     *)
(* followed through the sort.                                              *)

\* Diagonal entries after the rotations: squares, also slightly negative ones.
DiagonalValues == {-4, 0, 1, 4, 9}

\* sqrtf of a perfect square
sqrtf(v) == CHOOSE r \in 0..v : r * r = v

labelled(dim) == [r \in 1..dim |-> [col \in 1..dim |-> 10 * r + col]]

InitSort ==
    /\ pc = "extract"
    /\ \E dim \in 1..MaxDim :
          /\ ATA \in [1..dim -> DiagonalValues]
          /\ eigenvectors = labelled(dim)
          /\ S = [i \in 1..dim |-> 0]
    /\ si = 0
    /\ sj = 0
    /\ preS = <<>>
    /\ preEigenvectors = <<>>
    /\ IdleCall /\ IdleTransform /\ IdleCompress /\ IdleCompose /\ IdleJacobi

\* for (i < min_dim) S[i] = sqrtf(fabs(ATA[i][i]));  then the sort's i = 0, j = 1
ExtractSingularValues ==
    /\ pc = "extract"
    /\ S' = [i \in DOMAIN ATA |-> sqrtf(Abs(ATA[i]))]
    /\ preS' = S'
    /\ preEigenvectors' = eigenvectors
    /\ si' = 0
    /\ sj' = 1
    /\ pc' = IF 0 < Len(ATA) - 1 THEN "sort" ELSE "sorted"
    /\ UNCHANGED <<ATA, eigenvectors, image, ret, failed, transformVars,
                   compressVars, composeVars, jacobiVars>>

\* Mutant: ties are swapped too.
swapNeededNonStrict(a, b) == a <= b

\* if (S[i] < S[j])
swapNeeded(a, b) == a < b

swapEntries(row, a, b) ==
    [row EXCEPT ![a] = row[b], ![b] = row[a]]

\* Mutant: the last row is left out of the column swap.
swapColumnsShort(E, a, b) ==
    [r \in DOMAIN E |-> IF r < Len(E) THEN swapEntries(E[r], a, b) ELSE E[r]]

\* for (k < dim) swap eigenvectors[k][i], eigenvectors[k][j]
swapColumns(E, a, b) ==
    [r \in DOMAIN E |-> swapEntries(E[r], a, b)]

\* One pass of the inner loop body at (i, j) = (si, sj), then the loop steps.
SortCompare ==
    /\ pc = "sort"
    /\ IF swapNeeded(S[si + 1], S[sj + 1])
       THEN /\ S' = swapEntries(S, si + 1, sj + 1)
            /\ eigenvectors' = swapColumns(eigenvectors, si + 1, sj + 1)
       ELSE UNCHANGED <<S, eigenvectors>>
    /\ IF sj + 1 < Len(S)
       THEN /\ sj' = sj + 1
            /\ UNCHANGED <<si, pc>>
       ELSE /\ si' = si + 1
            /\ sj' = si + 2
            /\ pc' = IF si + 1 < Len(S) - 1 THEN "sort" ELSE "sorted"
    /\ UNCHANGED <<ATA, preS, preEigenvectors, image, ret, failed,
                   transformVars, compressVars, composeVars, jacobiVars>>

NextSort == ExtractSingularValues \/ SortCompare

SpecSort == InitSort /\ [][NextSort]_vars

----------------------------------------------------------------------------
(* Properties *)

\* Byte (x, y, c) of an image, 0-based coordinates.
ByteAt(img, x, y, c) == img.data[ByteIndex(img.width, img.channels, y, x, c)]

Coords(img) == (0..(img.width - 1)) \X (0..(img.height - 1))

ChannelsOf(img) == 0..(img.channels - 1)

\* An image with a buffer and positive sides.
HasPixels(img) ==
    /\ img.kind = "image"
    /\ ~img.dataNull
    /\ img.width > 0
    /\ img.height > 0

\* The arguments the interface rejects.
InvalidArgument(img) ==
    \/ img.kind = "null"
    \/ img.dataNull
    \/ img.width <= 0
    \/ img.height <= 0
    \/ img.channels \notin SupportedChannels

SameShape(a, b) ==
    /\ a.width = b.width
    /\ a.height = b.height
    /\ a.channels = b.channels
    /\ Len(a.data) = b.width * b.height * b.channels

\* C2: a call of applyTransformation with a null image, a null buffer, a
\* non-positive width or height, or a channel count outside {1,3,4} returns
\* NULL.
C2InvalidArgumentRejected ==
    (pc = "returned" /\ InvalidArgument(image)) => ret.kind = "null"

\* C3: the identity transform returns an image of the same shape whose pixel
\* (x, y) equals the input pixel in every channel when x <= w-2 and y <= h-2,
\* and is zero in the last row and the last column (for a call whose output
\* buffer was allocated).
C3IdentityTransform ==
    (/\ pc = "returned"
     /\ transform = createIdentityMatrix
     /\ HasPixels(image)
     /\ failed = {})
    => /\ ret.kind = "image"
       /\ SameShape(ret, image)
       /\ \A p \in Coords(image) : \A c \in ChannelsOf(image) :
              ByteAt(ret, p[1], p[2], c) =
                  IF p[1] <= image.width - 2 /\ p[2] <= image.height - 2
                  THEN ByteAt(image, p[1], p[2], c)
                  ELSE 0

C3Witness ==
    /\ pc = "returned"
    /\ transform = createIdentityMatrix
    /\ HasPixels(image)
    /\ image.width = 3 /\ image.height = 3 /\ image.channels = 3
    /\ ret.kind = "image"
    /\ ByteAt(ret, 1, 1, 0) = ByteAt(image, 1, 1, 0)
    /\ ByteAt(ret, 1, 1, 0) # 0
    /\ ByteAt(image, 2, 1, 0) # 0
    /\ ByteAt(ret, 2, 1, 0) = 0

\* The inverse-mapped source coordinate of destination pixel p lies in the
\* closed range [0, w-2] x [0, h-2].
SourceInClosedRange(p) ==
    LET nx == origXNum(transform, image.width, image.height, p[1], p[2])
        ny == origYNum(transform, image.width, image.height, p[1], p[2])
        den == origDen(transform)
    IN /\ 0 <= nx /\ nx <= (image.width - 2) * den
       /\ 0 <= ny /\ ny <= (image.height - 2) * den

\* The same coordinate lies in the half-open range [0, w-1) x [0, h-1).
SourceInHalfOpenRange(p) ==
    LET nx == origXNum(transform, image.width, image.height, p[1], p[2])
        ny == origYNum(transform, image.width, image.height, p[1], p[2])
        den == origDen(transform)
    IN /\ 0 <= nx /\ nx < (image.width - 1) * den
       /\ 0 <= ny /\ ny < (image.height - 1) * den

\* A returned transform of an image with pixels by an invertible matrix.
Resampled ==
    /\ pc = "returned"
    /\ HasPixels(image)
    /\ transform.kind = "matrix"
    /\ det(transform) # 0
    /\ ret.kind = "image"

ZeroPixel(img, p) == \A c \in ChannelsOf(img) : ByteAt(img, p[1], p[2], c) = 0

\* C9 as stated: every destination pixel whose source coordinate is outside
\* [0, w-2] x [0, h-2] keeps the zero default in every channel.
C9ClosedRangeOnly ==
    Resampled => \A p \in Coords(image) : ~SourceInClosedRange(p) => ZeroPixel(ret, p)

\* C9 as amended: every destination pixel whose source coordinate is outside
\* the half-open range [0, w-1) x [0, h-1) keeps the zero default in every
\* channel.
C9HalfOpenRange ==
    Resampled => \A p \in Coords(image) : ~SourceInHalfOpenRange(p) => ZeroPixel(ret, p)

\* A written pixel whose source x lies strictly between w-2 and w-1, next to
\* a pixel left at zero because its source is outside the half-open range.
C9Witness ==
    /\ Resampled
    /\ \E p \in Coords(image) :
          /\ SourceInHalfOpenRange(p)
          /\ ~SourceInClosedRange(p)
          /\ ~ZeroPixel(ret, p)
    /\ \E p \in Coords(image) :
          /\ ~SourceInHalfOpenRange(p)
          /\ ZeroPixel(ret, p)
          /\ \E q \in Coords(image) : ~ZeroPixel(image, q)

\* C10: when the top-left 2x2 submatrix has |det| < 1e-6 the call does not
\* fail: it returns an image of the input's w, h, c whose bytes are all zero
\* (for a call whose output buffer was allocated).
C10SingularTransformYieldsZeroImage ==
    (/\ pc = "returned"
     /\ image.kind = "image"
     /\ image.width > 0 /\ image.height > 0
     /\ transform.kind = "matrix"
     /\ transform.m[1][1] * transform.m[2][2] = transform.m[1][2] * transform.m[2][1]
     /\ failed = {})
    => /\ ret.kind = "image"
       /\ SameShape(ret, image)
       /\ \A i \in DOMAIN ret.data : ret.data[i] = 0

C10Witness ==
    /\ pc = "returned"
    /\ HasPixels(image)
    /\ image.width = 3 /\ image.height = 2
    /\ \E q \in Coords(image) : ~ZeroPixel(image, q)
    /\ transform.kind = "matrix"
    /\ transform.m[1] = <<1, 1, 3>>
    /\ transform.m[2] = <<1, 1, 0>>
    /\ ret.kind = "image"
    /\ Len(ret.data) = 6 * image.channels
    /\ \A i \in DOMAIN ret.data : ret.data[i] = 0

\* The arguments the interface accepts as an image.
ValidArgument(img) == ~InvalidArgument(img)

\* C1: compressSVD returns NULL for a valid image and a ratio <= 0 or > 1.
C1RatioOutsideRangeRejected ==
    (/\ pc = "returned"
     /\ ValidArgument(image)
     /\ (compressionRatio[1] <= 0 \/ compressionRatio[1] > compressionRatio[2]))
    => ret.kind = "null"

\* The allocations of float matrices and vectors made while a channel is
\* processed.
\* C4: once a temporary allocation of compressSVD or jacobiSVD has failed,
\* no NULL temporary is dereferenced, and the call returns NULL with every
\* allocation it made released.
C4AllocationFailureAborts ==
    (failed \cap Temporaries # {})
    => /\ pc # "undefined"
       /\ pc = "returned" => (ret.kind = "null" /\ live = {})

Clamp(v, lo, hi) == IF v < lo THEN lo ELSE IF v > hi THEN hi ELSE v

\* A compressSVD call past its rank computation, ratio in (0, 1].
RankChosen ==
    /\ pc # "call"
    /\ image.kind = "image"
    /\ 0 < compressionRatio[1]
    /\ compressionRatio[1] <= compressionRatio[2]

\* C5 as stated: k = clamp(round(maxRank * ratio), 1, maxRank).
C5RoundedRank ==
    RankChosen =>
        LET mr == IF image.width <= image.height THEN image.width ELSE image.height
        IN k = Clamp((2 * mr * compressionRatio[1] + compressionRatio[2])
                         \div (2 * compressionRatio[2]), 1, mr)

\* C5 as amended: k = clamp(floor(maxRank * ratio), 1, maxRank); the product
\* is truncated, not rounded.
C5TruncatedRank ==
    RankChosen =>
        LET mr == IF image.width <= image.height THEN image.width ELSE image.height
        IN k = Clamp((mr * compressionRatio[1]) \div compressionRatio[2], 1, mr)

\* maxRank = 3, ratio = 1/2: 1.5 is truncated to k = 1.
C5Witness ==
    /\ pc = "returned"
    /\ ret.kind = "image"
    /\ image.width = 3 /\ image.height = 3
    /\ compressionRatio = <<1, 2>>
    /\ k = 1

\* C6: multiplyMatrices(identity, M) and multiplyMatrices(M, identity) return
\* a pointer to a new object equal to M entry by entry and leave every
\* allocated matrix, the two arguments among them, as it was (for a call
\* whose malloc succeeded).
C6IdentityComposition ==
    (/\ call.op = "multiplyMatrices"
     /\ call.m1 # 0 /\ call.m2 # 0
     /\ failed = {})
    => /\ call.pre[call.m1] = Identity3 =>
              /\ call.ret \in DOMAIN heap \ DOMAIN call.pre
              /\ \A i \in 1..3, j \in 1..3 :
                     heap[call.ret][i][j] = call.pre[call.m2][i][j]
       /\ call.pre[call.m2] = Identity3 =>
              /\ call.ret \in DOMAIN heap \ DOMAIN call.pre
              /\ \A i \in 1..3, j \in 1..3 :
                     heap[call.ret][i][j] = call.pre[call.m1][i][j]
       /\ (call.pre[call.m1] = Identity3 \/ call.pre[call.m2] = Identity3) =>
              \A a \in DOMAIN call.pre : heap[a] = call.pre[a]

\* identity * M for an M that is neither symmetric nor the identity.
C6Witness ==
    /\ call.op = "multiplyMatrices"
    /\ failed = {}
    /\ call.m1 = 2 /\ call.m2 = 1 /\ call.ret = 3
    /\ call.pre[2] = Identity3
    /\ call.pre[1] = <<<<2, -1, 3>>, <<-2, 5, 7>>, <<0, 0, 1>>>>
    /\ heap[3] = heap[1]

\* Column o of the eigenvectors before the sort is column col after it.
ColumnFrom(col, o) ==
    \A r \in DOMAIN eigenvectors : eigenvectors[r][col] = preEigenvectors[r][o]

NonIncreasing(seq) ==
    \A a \in DOMAIN seq : \A b \in DOMAIN seq : a < b => seq[a] >= seq[b]

\* C7 as stated: the sort is stable; two equal singular values (and their
\* eigenvector columns) keep their relative order.
C7StableSort ==
    pc = "sorted" =>
        \A a \in DOMAIN preS : \A b \in DOMAIN preS :
            (a < b /\ preS[a] = preS[b]) =>
                \E pa \in DOMAIN S : \E pb \in DOMAIN S :
                    ColumnFrom(pa, a) /\ ColumnFrom(pb, b) /\ pa < pb

\* C7 as amended: the sort swaps only on strict <, which keeps ties in their
\* original order when the extracted values are already non-increasing: S and
\* the eigenvector columns are then left exactly as they were.
C7SortedInputUntouched ==
    (pc = "sorted" /\ NonIncreasing(preS))
    => (S = preS /\ eigenvectors = preEigenvectors)

C7Witness ==
    /\ pc = "sorted"
    /\ preS = <<2, 2, 1>>
    /\ S = <<2, 2, 1>>
    /\ eigenvectors = preEigenvectors

\* C8: after the sort S is non-increasing, and there is a permutation of the
\* positions that maps S and the eigenvector columns after the sort to those
\* before it, so every value keeps the column it was computed from.
C8SortedPermutation ==
    pc = "sorted" =>
        /\ Len(S) = Len(preS)
        /\ NonIncreasing(S)
        /\ \A col \in DOMAIN S : \E o \in DOMAIN preS :
               S[col] = preS[o] /\ ColumnFrom(col, o)
        /\ \A o \in DOMAIN preS : \E col \in DOMAIN S : ColumnFrom(col, o)

C8Witness ==
    /\ pc = "sorted"
    /\ preS = <<1, 3, 2>>
    /\ S = <<3, 2, 1>>
    /\ ColumnFrom(1, 2) /\ ColumnFrom(2, 3) /\ ColumnFrom(3, 1)

\* compressSVD has finished channel chan - 1; S holds what its test read.
ChannelDone ==
    /\ pc \in {"allocA", "returned"}
    /\ chan >= 1
    /\ compressedImage.kind = "image"

\* None of S[0..k-1] exceeds 1e-6.
NoneExceeds == \A i \in 1..k : S[i] <= SvdThreshold

\* Channel c of the output equals channel c of the input byte for byte.
ChannelUnchanged(c) ==
    \A i \in DOMAIN image.data :
        (i - 1) % image.channels = c => compressedImage.data[i] = image.data[i]

\* C11: when none of the first k singular values of a channel exceeds 1e-6
\* the output channel equals the input channel byte for byte; a channel is
\* reconstructed only when one of them exceeds 1e-6; an all-zero channel is
\* returned unchanged.
C11CopyWithoutSingularValues ==
    ChannelDone =>
        /\ NoneExceeds =>
              (channelState[chan] = "copied" /\ ChannelUnchanged(chan - 1))
        /\ channelState[chan] = "reconstructed" => ~NoneExceeds
        /\ \A c \in 0..(chan - 1) :
              ~channelNonZero(image, c) =>
                  (channelState[c + 1] = "copied" /\ ChannelUnchanged(c))

\* An all-zero channel was copied after jacobiSVD completed on it, in an
\* image whose first channel was reconstructed.
C11Witness ==
    /\ ChannelDone
    /\ failed = {}
    /\ chan >= 2
    /\ channelState[1] = "reconstructed"
    /\ channelState[chan] = "copied"
    /\ NoneExceeds
    /\ ChannelUnchanged(chan - 1)


\* Every off-diagonal entry is below the convergence epsilon in magnitude.
Converged(A) == \A e \in OffDiagonal(Len(A)) : Abs(Entry(A, e)) < EPSILON

\* Every off-diagonal entry is zero.
Diagonal(A) == \A e \in OffDiagonal(Len(A)) : Entry(A, e) = 0

\* The loop has run within its cap and without leaving the matrices; it has
\* performed no rotation on a diagonal input.
LoopWithinCap ==
    /\ pc # "undefined"
    /\ rotations <= MAX_ITERATIONS
    /\ Diagonal(jacobiInput) =>
          (rotations = 0 /\ rotatedColumns = {}
           /\ jacobiV = initIdentityMatrix(Len(jacobiInput)))

\* A test on a converged matrix leaves the loop without a rotation.
StopsWhenConverged ==
    (pc = "test" /\ Converged(jacobiA)) =>
        (pc' = "extract" /\ rotations' = rotations /\ jacobiA' = jacobiA)

\* C12: the Jacobi loop terminates: it performs at most MAX_ITERATIONS
\* rotations, it stops without a further rotation as soon as the largest
\* off-diagonal magnitude is below EPSILON, and for a diagonal input it
\* performs no rotation and leaves the accumulator the identity.
C12JacobiLoopTerminates == [](LoopWithinCap) /\ [][StopsWhenConverged]_vars

\* C13: in every Jacobi iteration, for every covariance size n >= 1, the
\* pivot (p, q) that the off-diagonal scan returns satisfies
\* 0 <= p < q < n, so the convergence test and the rotation stay inside the
\* n x n matrices.
C13PivotInsideMatrix ==
    pc \in {"test", "undefined"} =>
        /\ 0 <= pivot[1]
        /\ pivot[1] < pivot[2]
        /\ pivot[2] < Len(jacobiA)

\* compressSVD is between two channels, or has returned its output image.
ChannelBoundary ==
    /\ pc \in {"allocA", "returned"}
    /\ compressedImage.kind = "image"

\* C14: when no allocation fails, every temporary allocated while a
\* channel is processed is freed exactly once before the next channel
\* begins: no temporary is freed more often than it was allocated, and at
\* each channel boundary and at return every allocation of a temporary has
\* its free and the output image is the only live allocation of the call.
C14TemporariesFreedOnce ==
    failed = {} =>
        /\ \A t \in DOMAIN frees : frees[t] <= allocs[t]
        /\ ChannelBoundary =>
              /\ live = {"compressedImage"}
              /\ \A t \in DOMAIN frees : frees[t] = allocs[t]

\* A channel was reconstructed without a failed allocation, and every
\* temporary of compressSVD and of jacobiSVD was allocated and freed.
C14Witness ==
    /\ failed = {}
    /\ ChannelBoundary
    /\ chan >= 1
    /\ channelState[chan] = "reconstructed"
    /\ live = {"compressedImage"}
    /\ \A t \in {"A", "U", "S", "V", "A_copy", "AT", "ATA", "eigenvectors",
                 "temp", "US"} : allocs[t] >= 1 /\ frees[t] = allocs[t]

====
